---- MODULE Spec2Model ----
(***************************************************************************)
(* Behavioural model of the creative-camera toys of this repository:       *)
(*   - the gesture predicates (utils/gestureUtils)                         *)
(*   - the time-slice camera (App: onResults state machine, dwell timers)  *)
(*   - the frame loops that feed the landmark detectors                    *)
(*   - the tear filter (ARCanvas: physics tick, spawning, rewind)          *)
(*   - the AR game's particle list                                         *)
(* Coordinates are normalised landmark coordinates in percent (0..100),    *)
(* times are milliseconds as returned by Date.now().                       *)
(***************************************************************************)
EXTENDS Integers, Sequences, FiniteSets, TLC

VARIABLES
    gFrame,        \* gesture detector: the hand frame under classification
    gPoses,        \* gesture detector: the poses reported for gFrame
    gClassified,   \* gesture detector: TRUE once gFrame has been classified
    now,           \* time-slice camera: Date.now() at the latest callback
    canvasReady,   \* time-slice camera: canvasRef.current is mounted
    isMounted,     \* isMountedRef.current
    state,         \* stateRef.current
    rect,          \* rectRef.current
    effectMode,    \* effectModeRef.current
    handCount,     \* handCountRef.current
    resetStartTime,        \* resetStartTimeRef.current (0 when null)
    effectSwitchStartTime, \* effectSwitchStartTimeRef.current (0 when null)
    santaProgress, \* santaPathProgressRef.current, in thousandths
    pgParticles,   \* particlesRef.current.length (pixel grid)
    cbSeq,         \* observer: flips at every hands callback
    cb,            \* observer: what the latest hands callback saw and did
    resetUnbroken, \* observer: two fists seen in every callback since arming
    switchUnbroken, \* observer: victory seen in every callback since arming
    sound,         \* soundEngineRef.current: the ocean ambience
    moves,         \* observer: the state assignments of the latest step
    visited,       \* observer: the modes entered by switches since a reset
    handsPending,  \* camera feed: hands.send has not resolved yet
    facePending,   \* camera feed: faceMesh.send has not resolved yet
    feedLate,      \* observer: a video frame was submitted after the cleanup
    mlRun,         \* music line: number of the current drawing-loop effect run
    mlPc,          \* music line: where each effect run's draw closure stands
    requestRef,    \* music line: the run whose frame id requestRef.current holds
    mlMounted,     \* music line: the component is mounted
    handsEnabled,  \* settingsRef.current.handsEnabled
    handsRef,      \* handsRef.current is set
    videoReady,    \* video.readyState === 4
    mlTorn,        \* observer: the effect runs whose cleanup has run
    mlLate,        \* observer: what a torn-down run did afterwards
    isCameraOn,    \* tear filter: isCameraOnRef.current
    faceLandmarksRef, \* tear filter: faceLandmarksRef.current (NoFace: null)
    handLandmarksRef, \* tear filter: handLandmarksRef.current (<<>>: null)
    textQueue,     \* tear filter: the parent's textQueue state
    textQueueRef,  \* tear filter: textQueueRef.current
    sinceSpawn,    \* tear filter: now - lastSpawnTimeRef.current, capped
    bodies,        \* tear filter: the tears of the physics world, oldest first
    nextId,        \* tear filter: the id of the next body
    typed,         \* tear filter: characters typed so far
    rewinds,       \* tear filter: rewindTrigger
    rewound,       \* observer: the tears that existed at the latest rewind
    deliveredFace, \* observer: multiFaceLandmarks of the latest callback
    deliveredHands, \* observer: multiHandLandmarks of the latest callback
    tk,            \* observer: what the latest physics tick saw and did
    gameActive,    \* AR game: gameActiveRef.current
    particles,     \* AR game: particlesRef.current
    gk,            \* observer: what the latest frame of the game did
    mapGeo,        \* coordinate mapper: canvas size, video size and zoom
    mapMirror,     \* coordinate mapper: the mirrorX argument
    mapOut,        \* coordinate mapper: the image of the unit square
    rigRect,       \* horse puppet: the rect handed to update
    flKnee,        \* horse puppet: this.flKnee
    flHoof,        \* horse puppet: this.flHoof
    head,          \* horse puppet: this.head
    rigOut,        \* observer: the targets the latest update computed
    lastInteractRef, \* tear filter: the button pointed at and since when
    pointNow,      \* tear filter: performance.now() at the latest frame
    held,          \* observer: what each hand has pointed at in every frame
    clicks         \* observer: the buttons clicked in the latest frame

gestVars == <<gFrame, gPoses, gClassified>>
camVars == <<now, canvasReady, isMounted, state, rect, effectMode, handCount,
             resetStartTime, effectSwitchStartTime, santaProgress,
             pgParticles, cbSeq, cb, resetUnbroken, switchUnbroken,
             sound, moves, visited>>

feedVars == <<handsPending, facePending, feedLate>>
mlVars == <<mlRun, mlPc, requestRef, mlMounted, handsEnabled, handsRef,
            videoReady, mlTorn, mlLate>>

tearVars == <<isCameraOn, faceLandmarksRef, handLandmarksRef, textQueue,
              textQueueRef, sinceSpawn, bodies, nextId, typed, rewinds,
              rewound, deliveredFace, deliveredHands, tk>>

gameVars == <<gameActive, particles, gk>>

mapVars == <<mapGeo, mapMirror, mapOut>>

rigVars == <<rigRect, flKnee, flHoof, head, rigOut>>

pointVars == <<lastInteractRef, pointNow, held, clicks>>

\* the state of the stateless helpers and of the hand pointer
restVars == <<mapVars, rigVars, pointVars>>

vars == <<gestVars, camVars, feedVars, mlVars, tearVars, gameVars, restVars>>

Min(a, b) == IF a <= b THEN a ELSE b
Max(a, b) == IF a >= b THEN a ELSE b
Abs(a) == IF a >= 0 THEN a ELSE 0 - a

(***************************************************************************)
(* Gesture predicates.  A hand frame holds the landmarks the predicates    *)
(* read: tips 4, 8, 12, 16, 20 and PIP joints 6, 10, 14, 18; a missing     *)
(* landmark list (!landmarks) is a frame of length 0.                      *)
(***************************************************************************)

\* coordinates of a frame are multiples of CoordStepPct, up to MaxCoordIdx steps
CoordStepPct == 4
MaxCoordIdx == 1
\* isPinching: dist < 0.05, in percent
PinchThresholdPct == 5
\* a full MediaPipe hand has 21 landmarks
HandLandmarkCount == 21

GridCoords == {i * CoordStepPct : i \in 0..MaxCoordIdx}

Frames ==
    [len : {HandLandmarkCount - 1, HandLandmarkCount},
     x4 : GridCoords, y4 : GridCoords,
     x8 : GridCoords, y8 : GridCoords, y6 : GridCoords,
     y12 : GridCoords, y10 : GridCoords,
     y16 : GridCoords, y14 : GridCoords,
     y20 : GridCoords, y18 : GridCoords]

isPointingUp(lm) ==
    IF lm.len < HandLandmarkCount THEN FALSE
    ELSE LET indexUp == lm.y8 < lm.y6
             middleDown == lm.y12 > lm.y10
             ringDown == lm.y16 > lm.y14
             pinkyDown == lm.y20 > lm.y18
         IN  indexUp /\ middleDown /\ ringDown /\ pinkyDown

\* mutant of isHandClosed: the index finger is not tested
isHandClosedNoIndex(lm) ==
    IF lm.len < HandLandmarkCount THEN FALSE
    ELSE lm.y12 > lm.y10 /\ lm.y16 > lm.y14 /\ lm.y20 > lm.y18

isHandClosed(lm) ==
    IF lm.len < HandLandmarkCount THEN FALSE
    ELSE LET indexClosed == lm.y8 > lm.y6
             middleClosed == lm.y12 > lm.y10
             ringClosed == lm.y16 > lm.y14
             pinkyClosed == lm.y20 > lm.y18
         IN  indexClosed /\ middleClosed /\ ringClosed /\ pinkyClosed

\* dist = sqrt(dx*dx + dy*dy) < 0.05, compared on the squares
isPinching(lm) ==
    IF lm.len < HandLandmarkCount THEN FALSE
    ELSE LET dx == lm.x8 - lm.x4
             dy == lm.y8 - lm.y4
         IN  dx * dx + dy * dy < PinchThresholdPct * PinchThresholdPct

isVictoryHand(lm) ==
    IF lm.len < HandLandmarkCount THEN FALSE
    ELSE LET indexUp == lm.y8 < lm.y6
             middleUp == lm.y12 < lm.y10
             ringDown == lm.y16 > lm.y14
             pinkyDown == lm.y20 > lm.y18
         IN  indexUp /\ middleUp /\ ringDown /\ pinkyDown

\* the set of pose predicates that are true of a frame
PosesOf(lm) ==
    {p \in {"point", "fist", "pinch", "victory"} :
        \/ p = "point" /\ isPointingUp(lm)
        \/ p = "fist" /\ isHandClosed(lm)
        \/ p = "pinch" /\ isPinching(lm)
        \/ p = "victory" /\ isVictoryHand(lm)}

GestureInit ==
    /\ gFrame \in Frames
    /\ gPoses = {}
    /\ gClassified = FALSE

\* the caller evaluates the four predicates on the frame it was handed
Classify ==
    /\ ~gClassified
    /\ gPoses' = PosesOf(gFrame)
    /\ gClassified' = TRUE
    /\ UNCHANGED gFrame


(***************************************************************************)
(* Time-slice camera (App).                                                *)
(***************************************************************************)

\* the clock advances by whole steps of TickMs between callbacks
TickMs == 500
MaxNowTicks == 7
MaxAdvance == 1
\* two fists held > 1500 ms reset; victory held > 2000 ms switches the effect
ResetDwellMs == 1500
EffectDwellMs == 2000
\* smoothFactor 0.4, in tenths
SmoothFactorTenths == 4
\* santaPathProgressRef += 0.002, loops when > 1; in thousandths
PathStepMilli == 2
PathWrapMilli == 1000
\* pixel-grid cell size
GRID_SIZE == 12

MaxNowMs == MaxNowTicks * TickMs

AppStates == {"IDLE", "RESIZING", "FROZEN"}
EffectModes == {"NORMAL", "GRID_STRETCH", "SLICE_3D", "PIXEL_GRID",
                "SHREDDER", "SANTA_WALKER", "PIXEL_TEXT"}

ZeroRect == [x |-> 0, y |-> 0, w |-> 0, h |-> 0]

\* hand frames the camera is shown: the index tip at (tx, ty), each finger
\* stretched (tip above its PIP joint) or curled, the thumb on the index tip
\* (pinch) or away from it
MkHand(tx, ty, indexUp, middleUp, ringUp, pinch) ==
    [len |-> HandLandmarkCount,
     x8 |-> tx, y8 |-> ty,
     y6 |-> IF indexUp THEN ty + CoordStepPct ELSE ty - CoordStepPct,
     x4 |-> IF pinch THEN tx ELSE tx + 2 * CoordStepPct,
     y4 |-> ty,
     y10 |-> 50, y12 |-> IF middleUp THEN 50 - CoordStepPct ELSE 50 + CoordStepPct,
     y14 |-> 50, y16 |-> IF ringUp THEN 50 - CoordStepPct ELSE 50 + CoordStepPct,
     y18 |-> 50, y20 |-> IF ringUp THEN 50 - CoordStepPct ELSE 50 + CoordStepPct]

\* the left hand is shown at (0, 4), the right hand at (24, 36) or one step
\* further right
LeftHands ==
    {MkHand(0, 4, TRUE, FALSE, FALSE, FALSE),     \* pointing up
     MkHand(0, 4, TRUE, FALSE, FALSE, TRUE),      \* pointing up and pinching
     MkHand(0, 4, FALSE, FALSE, FALSE, FALSE),    \* fist
     MkHand(0, 4, TRUE, TRUE, FALSE, FALSE)}      \* victory

RightHands ==
    {MkHand(24, 36, TRUE, FALSE, FALSE, FALSE),   \* pointing up
     MkHand(24, 36, TRUE, FALSE, FALSE, TRUE),    \* pointing up and pinching
     MkHand(24, 36, FALSE, FALSE, FALSE, TRUE),   \* fist, thumb on the index
     MkHand(25, 36, TRUE, TRUE, TRUE, FALSE)}     \* open hand

CamHands == LeftHands \cup RightHands

\* results.multiHandLandmarks when defined: up to maxNumHands = 2 hands
HandLists ==
    {<<>>} \cup {<<h>> : h \in CamHands}
           \cup {<<h1, h2>> : h1 \in LeftHands, h2 \in RightHands}
           \cup {<<MkHand(24, 36, TRUE, FALSE, FALSE, FALSE),
                   MkHand(0, 4, TRUE, FALSE, FALSE, FALSE)>>}

\* canvas and video sizes in pixels, zoom in tenths
CamGeometries ==
    {[canvasW |-> 100, canvasH |-> 75, imgW |-> 1280, imgH |-> 960, zoom10 |-> 10]}

lerp(start, end, factorTenths) ==
    start + ((end - start) * factorTenths) \div 10

\* onResults: baseScale = max(canvasW / imgW, canvasH / imgH); scale = baseScale * zoom
CoverByWidth(g) == g.canvasW * g.imgH >= g.canvasH * g.imgW
DrawW(g) ==
    IF CoverByWidth(g) THEN (g.canvasW * g.zoom10) \div 10
    ELSE (g.imgW * g.canvasH * g.zoom10) \div (g.imgH * 10)
DrawH(g) ==
    IF CoverByWidth(g) THEN (g.imgH * g.canvasW * g.zoom10) \div (g.imgW * 10)
    ELSE (g.canvasH * g.zoom10) \div 10
OffsetX(g) == (g.canvasW - DrawW(g)) \div 2
OffsetY(g) == (g.canvasH - DrawH(g)) \div 2

getScreenCoord(g, nx, ny) ==
    [x |-> OffsetX(g) + (nx * DrawW(g)) \div 100,
     y |-> OffsetY(g) + (ny * DrawH(g)) \div 100]

\* initParticles: one particle per GRID_SIZE cell of the rectangle
initParticles(r) == (r.w \div GRID_SIZE) * (r.h \div GRID_SIZE)

\* stopOceanSound's setTimeout delay
FadeOutMs == 1100

\* a SoundEngine whose constructor obtained an audio context: the ocean
\* fields, the AudioBufferSourceNodes that were started and not yet stopped
\* (live, numbered in order of creation), the deadlines of the pending stop
\* timers, and the ocean calls of the latest step and the last of all
SoundInit ==
    [isOceanPlaying |-> FALSE, oceanSource |-> 0, live |-> {}, made |-> 0,
     timers |-> <<>>, calls |-> <<>>, lastCall |-> "none"]

\* mutant of startOceanSound: a call made during a fade-out starts a source
startOceanSoundAlways(s) ==
    [s EXCEPT !.calls = Append(@, "start"), !.lastCall = "start",
              !.made = @ + 1, !.oceanSource = s.made + 1,
              !.live = @ \cup {s.made + 1}, !.isOceanPlaying = TRUE]

startOceanSound(s) ==
    LET called == [s EXCEPT !.calls = Append(@, "start"),
                            !.lastCall = "start"]
    IN  IF s.isOceanPlaying THEN called
        ELSE [called EXCEPT !.made = @ + 1, !.oceanSource = s.made + 1,
                            !.live = @ \cup {s.made + 1},
                            !.isOceanPlaying = TRUE]

\* mutant of stopOceanSound: the source is left playing
stopOceanSoundNoTimer(s, t) ==
    [s EXCEPT !.calls = Append(@, "stop"), !.lastCall = "stop"]

\* stopOceanSound called at time t: fade out, stop the source 1100 ms later
stopOceanSound(s, t) ==
    LET called == [s EXCEPT !.calls = Append(@, "stop"),
                            !.lastCall = "stop"]
    IN  IF ~s.isOceanPlaying THEN called
        ELSE [called EXCEPT !.timers = Append(@, t + FadeOutMs)]

\* the callback of the oldest pending stop timer
stopTimeout(s) ==
    [s EXCEPT !.timers = Tail(@), !.live = @ \ {s.oceanSource},
              !.oceanSource = 0, !.isOceanPlaying = FALSE]

\* the part of the camera state the effect helpers write, and the time
EffectState(mode, progress, count, snd, t) ==
    [effectMode |-> mode, santaProgress |-> progress, pgParticles |-> count,
     sound |-> snd, now |-> t]

\* initSanta: a new path, progress back to the start
initSanta(es) == [es EXCEPT !.santaProgress = 0]

handleEffectSwitch(es, mode) ==
    LET cleaned == IF es.effectMode = "SHREDDER"
                   THEN [es EXCEPT !.sound = stopOceanSound(@, es.now)]
                   ELSE es
        switched == [cleaned EXCEPT !.effectMode = mode]
    IN  IF mode = "SANTA_WALKER" THEN initSanta(switched)
        ELSE IF mode = "PIXEL_GRID" THEN [switched EXCEPT !.pgParticles = 0]
        ELSE IF mode = "SHREDDER"
        THEN [switched EXCEPT !.sound = startOceanSound(@)]
        ELSE switched

\* mutant of NextEffect: the text effect is left out
NextEffectNoText(mode) ==
    CASE mode = "NORMAL" -> "GRID_STRETCH"
      [] mode = "GRID_STRETCH" -> "SLICE_3D"
      [] mode = "SLICE_3D" -> "PIXEL_GRID"
      [] mode = "PIXEL_GRID" -> "SHREDDER"
      [] mode = "SHREDDER" -> "SANTA_WALKER"
      [] OTHER -> "NORMAL"

\* the cycle of the victory dwell
NextEffect(mode) ==
    CASE mode = "NORMAL" -> "GRID_STRETCH"
      [] mode = "GRID_STRETCH" -> "SLICE_3D"
      [] mode = "SLICE_3D" -> "PIXEL_GRID"
      [] mode = "PIXEL_GRID" -> "SHREDDER"
      [] mode = "SHREDDER" -> "SANTA_WALKER"
      [] mode = "SANTA_WALKER" -> "PIXEL_TEXT"
      [] mode = "PIXEL_TEXT" -> "NORMAL"
      [] OTHER -> "NORMAL"

\* the refs resetSystem, the state machine and the effects write
CamCore ==
    [state |-> state, rect |-> rect, effectMode |-> effectMode,
     resetStartTime |-> resetStartTime,
     effectSwitchStartTime |-> effectSwitchStartTime,
     santaProgress |-> santaProgress, pgParticles |-> pgParticles,
     sound |-> sound, now |-> now]

EffectOf(c) ==
    EffectState(c.effectMode, c.santaProgress, c.pgParticles, c.sound, c.now)
WithEffect(c, es) ==
    [c EXCEPT !.effectMode = es.effectMode,
              !.santaProgress = es.santaProgress,
              !.pgParticles = es.pgParticles,
              !.sound = es.sound]

\* mutant of resetSystem: the pixel-grid particles are kept
resetSystemKeepParticles(c) ==
    [c EXCEPT !.sound = stopOceanSound(@, c.now),
              !.state = "IDLE", !.rect = ZeroRect, !.effectMode = "NORMAL",
              !.resetStartTime = 0, !.effectSwitchStartTime = 0]

\* mutant of resetSystem: the effect mode is kept
resetSystemKeepEffect(c) ==
    [c EXCEPT !.sound = stopOceanSound(@, c.now),
              !.state = "IDLE", !.rect = ZeroRect,
              !.resetStartTime = 0, !.effectSwitchStartTime = 0,
              !.pgParticles = 0]

resetSystem(c) ==
    [c EXCEPT !.sound = stopOceanSound(@, c.now),
              !.state = "IDLE", !.rect = ZeroRect, !.effectMode = "NORMAL",
              !.resetStartTime = 0, !.effectSwitchStartTime = 0,
              !.pgParticles = 0]

\* mutant of StartResizing: only the first hand is looked at
StartResizingFirstHand(c, defined, hands) ==
    IF c.state = "IDLE" /\ defined /\ Len(hands) = 2
       /\ isPointingUp(hands[1])
    THEN [c EXCEPT !.state = "RESIZING"]
    ELSE c

\* IDLE -> RESIZING: exactly two hands, both pointing up
StartResizing(c, defined, hands) ==
    IF c.state = "IDLE" /\ defined /\ Len(hands) = 2
       /\ isPointingUp(hands[1]) /\ isPointingUp(hands[2])
    THEN [c EXCEPT !.state = "RESIZING"]
    ELSE c

\* the rectangle follows the two index tips
TrackRect(r, g, hands) ==
    LET p1 == getScreenCoord(g, hands[1].x8, hands[1].y8)
        p2 == getScreenCoord(g, hands[2].x8, hands[2].y8)
        tx == Min(p1.x, p2.x)
        ty == Min(p1.y, p2.y)
        tw == Abs(p1.x - p2.x)
        th == Abs(p1.y - p2.y)
    IN  IF r.w = 0 /\ r.h = 0
        THEN [x |-> tx, y |-> ty, w |-> tw, h |-> th]
        ELSE [x |-> lerp(r.x, tx, SmoothFactorTenths),
              y |-> lerp(r.y, ty, SmoothFactorTenths),
              w |-> lerp(r.w, tw, SmoothFactorTenths),
              h |-> lerp(r.h, th, SmoothFactorTenths)]

\* RESIZING -> FROZEN: both hands pinching; effects that need it are started
Freeze(c) ==
    LET frozen == [c EXCEPT !.state = "FROZEN"]
    IN  IF c.effectMode = "SANTA_WALKER"
        THEN WithEffect(frozen, initSanta(EffectOf(frozen)))
        ELSE IF c.effectMode = "SHREDDER"
        THEN [frozen EXCEPT !.sound = startOceanSound(@)]
        ELSE frozen

Resize(c, defined, hands, g) ==
    IF c.state = "RESIZING" /\ defined /\ Len(hands) = 2
    THEN LET tracked == [c EXCEPT !.rect = TrackRect(c.rect, g, hands)]
         IN  IF isPinching(hands[1]) /\ isPinching(hands[2])
             THEN Freeze(tracked)
             ELSE tracked
    ELSE c

\* activeHands: every hand while FROZEN, sorted by the x of the index tip
ActiveHands(c, defined, hands) ==
    IF c.state = "FROZEN" /\ defined
    THEN IF Len(hands) = 2 /\ hands[1].x8 > hands[2].x8
         THEN <<hands[2], hands[1]>>
         ELSE hands
    ELSE <<>>

\* mutant of HorseMode: a horse is a puppet whenever any hand is visible
HorseModeAnyHand(active, k) == IF Len(active) >= 1 THEN "PUPPET" ELSE "AUTO"

\* the mode handed to SantaPuppet.update for horse k (1 brown, 2 white)
HorseMode(active, k) == IF Len(active) >= k THEN "PUPPET" ELSE "AUTO"

\* mutant of AutoPilot: the path progress advances in every callback
AutoPilotAlways(progress, active) ==
    IF progress + PathStepMilli >= PathWrapMilli THEN 0
    ELSE progress + PathStepMilli

\* the shared auto-path progress advances while horse 1 has no hand; the 500th
\* addition of 0.002 yields 1.0000000000000007 > 1, so the path loops there
AutoPilot(progress, active) ==
    IF Len(active) = 0
    THEN IF progress + PathStepMilli >= PathWrapMilli THEN 0
         ELSE progress + PathStepMilli
    ELSE progress

\* rendering while FROZEN: the state the effects keep between callbacks
Render(c, active) ==
    IF c.state # "FROZEN" THEN c
    ELSE IF c.effectMode = "PIXEL_GRID"
    THEN IF c.pgParticles = 0
         THEN [c EXCEPT !.pgParticles = initParticles(c.rect)]
         ELSE c
    ELSE IF c.effectMode = "SANTA_WALKER"
    THEN [c EXCEPT !.santaProgress = AutoPilot(c.santaProgress, active)]
    ELSE c

SantaRuns(c) == c.state = "FROZEN" /\ c.effectMode = "SANTA_WALKER"

isResetGesture(defined, hands) ==
    defined /\ Len(hands) = 2 /\ isHandClosed(hands[1]) /\ isHandClosed(hands[2])

isVictory(defined, hands) ==
    defined /\ \E i \in 1..Len(hands) : isVictoryHand(hands[i])

\* mutant of Dwell: a callback without the gesture leaves the timer running
DwellNoClear(gesture, start, t, threshold) ==
    IF gesture
    THEN LET armed == IF start = 0 THEN t ELSE start
         IN  IF t - armed > threshold
             THEN [start |-> 0, fire |-> TRUE, armedNow |-> FALSE]
             ELSE [start |-> armed, fire |-> FALSE, armedNow |-> start = 0]
    ELSE [start |-> start, fire |-> FALSE, armedNow |-> FALSE]

\* mutant of Dwell: the elapsed time is tested before the gesture
DwellStale(gesture, start, t, threshold) ==
    IF start # 0 /\ t - start > threshold
    THEN [start |-> 0, fire |-> TRUE, armedNow |-> FALSE]
    ELSE IF gesture
    THEN [start |-> IF start = 0 THEN t ELSE start, fire |-> FALSE,
          armedNow |-> start = 0]
    ELSE [start |-> 0, fire |-> FALSE, armedNow |-> FALSE]

\* a dwell timer: armed at the first callback with the gesture, fires when
\* more than threshold ms have elapsed, cleared by a callback without it
Dwell(gesture, start, t, threshold) ==
    IF gesture
    THEN LET armed == IF start = 0 THEN t ELSE start
         IN  IF t - armed > threshold
             THEN [start |-> 0, fire |-> TRUE, armedNow |-> FALSE]
             ELSE [start |-> armed, fire |-> FALSE, armedNow |-> start = 0]
    ELSE [start |-> 0, fire |-> FALSE, armedNow |-> FALSE]

\* reset logic: two fists held for more than 1500 ms
ResetLogic(c, d) ==
    IF d.fire
    THEN [resetSystem(c) EXCEPT !.resetStartTime = 0]
    ELSE [c EXCEPT !.resetStartTime = d.start]

\* effect switch logic: victory while FROZEN held for more than 2000 ms
SwitchLogic(c, d) ==
    IF d.fire
    THEN [WithEffect(c, handleEffectSwitch(EffectOf(c), NextEffect(c.effectMode)))
            EXCEPT !.effectSwitchStartTime = 0]
    ELSE [c EXCEPT !.effectSwitchStartTime = d.start]

NoCallback ==
    [ran |-> FALSE, nHands |-> 0, twoFists |-> FALSE, victory |-> FALSE,
     resetFired |-> FALSE, switchFired |-> FALSE, santaRan |-> FALSE,
     horse1 |-> "NONE", horse2 |-> "NONE"]

Store(c) ==
    /\ state' = c.state
    /\ rect' = c.rect
    /\ effectMode' = c.effectMode
    /\ resetStartTime' = c.resetStartTime
    /\ effectSwitchStartTime' = c.effectSwitchStartTime
    /\ santaProgress' = c.santaProgress
    /\ pgParticles' = c.pgParticles
    /\ sound' = c.sound

\* what the observer notes of an assignment to stateRef: the state before
\* and after, its cause, the effect mode and the pixel-grid particles before
\* it, and what the hands of the callback showed
Move(a, b, via, shown) ==
    [from |-> a.state, to |-> b.state, via |-> via,
     effect |-> a.effectMode, particles |-> a.pgParticles,
     twoHands |-> shown.twoHands, bothPointing |-> shown.bothPointing,
     bothPinching |-> shown.bothPinching]

Moved(a, b, via, shown) ==
    IF a.state # b.state THEN <<Move(a, b, via, shown)>> ELSE <<>>

NoHandsShown ==
    [twoHands |-> FALSE, bothPointing |-> FALSE, bothPinching |-> FALSE]

Shown(defined, hands) ==
    LET two == defined /\ Len(hands) = 2
    IN  [twoHands |-> two,
         bothPointing |->
             two /\ isPointingUp(hands[1]) /\ isPointingUp(hands[2]),
         bothPinching |->
             two /\ isPinching(hands[1]) /\ isPinching(hands[2])]

\* what a callback that got past the canvas check leaves behind
CallbackDone(c, defined, hands, entry) ==
    /\ Store(c)
    /\ handCount' = IF defined THEN Len(hands) ELSE 0
    /\ cb' = entry

\* hands.onResults: one detector callback, run at time t (the singleton
\* quantifiers name the camera state after each part of the callback)
onResults(defined, hands, t, g) ==
    LET fists == isResetGesture(defined, hands)
        vic == isVictory(defined, hands)
        shown == Shown(defined, hands)
    IN  /\ now' = t
        /\ cbSeq' = 1 - cbSeq
        /\ IF canvasReady
           THEN \E c0 \in {[CamCore EXCEPT !.now = t, !.sound.calls = <<>>]} :
                \E s1 \in {StartResizing(c0, defined, hands)} :
                \E c1 \in {Resize(s1, defined, hands, g)} :
                \E active \in {ActiveHands(c1, defined, hands)} :
                \E c2 \in {Render(c1, active)} :
                \E dReset \in {Dwell(fists, c2.resetStartTime, t,
                                     ResetDwellMs)} :
                \E c3 \in {ResetLogic(c2, dReset)} :
                \E dSwitch \in {Dwell(c3.state = "FROZEN" /\ vic,
                                      c3.effectSwitchStartTime, t,
                                      EffectDwellMs)} :
                \E c4 \in {SwitchLogic(c3, dSwitch)} :
                /\ CallbackDone(c4, defined, hands,
                      [ran |-> TRUE,
                       nHands |-> IF defined THEN Len(hands) ELSE 0,
                       twoFists |-> fists, victory |-> vic,
                       resetFired |-> dReset.fire,
                       switchFired |-> dSwitch.fire,
                       santaRan |-> SantaRuns(c1),
                       horse1 |-> IF SantaRuns(c1) THEN HorseMode(active, 1)
                                  ELSE "NONE",
                       horse2 |-> IF SantaRuns(c1) THEN HorseMode(active, 2)
                                  ELSE "NONE"])
                /\ resetUnbroken' =
                     IF ~fists THEN FALSE
                     ELSE IF dReset.armedNow THEN TRUE ELSE resetUnbroken
                /\ switchUnbroken' =
                     IF ~vic THEN FALSE
                     ELSE IF dSwitch.armedNow THEN TRUE ELSE switchUnbroken
                /\ moves' = Moved(c0, s1, "point", shown)
                               \o Moved(s1, c1, "pinch", shown)
                               \o Moved(c1, c2, "render", shown)
                               \o (IF dReset.fire
                                   THEN <<Move(c2, c3, "reset", shown)>>
                                   ELSE Moved(c2, c3, "dwell", shown))
                               \o Moved(c3, c4, "switch", shown)
                /\ visited' = IF dSwitch.fire
                              THEN Append(visited, c4.effectMode)
                              ELSE IF dReset.fire THEN <<>> ELSE visited
           ELSE \* if (!canvas || !ctx) return
                /\ cb' = [NoCallback EXCEPT
                            !.nHands = IF defined THEN Len(hands) ELSE 0,
                            !.twoFists = fists, !.victory = vic]
                /\ resetUnbroken' = (fists /\ resetUnbroken)
                /\ switchUnbroken' = (vic /\ switchUnbroken)
                /\ UNCHANGED <<state, rect, effectMode, handCount,
                               resetStartTime, effectSwitchStartTime,
                               santaProgress, pgParticles, sound, moves,
                               visited>>
        /\ UNCHANGED <<canvasReady, isMounted>>

\* handleKey ('1') and the overlay's reset button
handleKey ==
    /\ canvasReady
    /\ Store(resetSystem([CamCore EXCEPT !.sound.calls = <<>>]))
    /\ moves' = <<Move(CamCore, resetSystem(CamCore), "reset", NoHandsShown)>>
    /\ visited' = <<>>
    /\ UNCHANGED <<now, canvasReady, isMounted, handCount, cbSeq, cb,
                   resetUnbroken, switchUnbroken>>

\* the component unmounts: the effect cleanup runs, the canvas ref is cleared
CamUnmount ==
    /\ isMounted
    /\ isMounted' = FALSE
    /\ canvasReady' = FALSE
    /\ UNCHANGED <<now, state, rect, effectMode, handCount, resetStartTime,
                   effectSwitchStartTime, santaProgress, pgParticles,
                   cbSeq, cb, resetUnbroken, switchUnbroken, sound, moves,
                   visited>>

Advances == {k * TickMs : k \in 0..MaxAdvance}

\* results.multiHandLandmarks: undefined, or a list of hands
Deliveries(lists) == {<<FALSE, <<>>>>} \cup {<<TRUE, hs>> : hs \in lists}

HandsCallback ==
    \E dt \in Advances, g \in CamGeometries, d \in Deliveries(HandLists) :
        /\ now + dt <= MaxNowMs
        /\ onResults(d[1], d[2], now + dt, g)

\* the hands shown to the two horses
HorseHandLists ==
    {<<>>,
     <<MkHand(25, 36, TRUE, TRUE, TRUE, FALSE)>>,
     <<MkHand(0, 4, TRUE, TRUE, FALSE, FALSE)>>,
     <<MkHand(0, 4, FALSE, FALSE, FALSE, FALSE),
       MkHand(24, 36, FALSE, FALSE, FALSE, TRUE)>>,
     <<MkHand(24, 36, TRUE, FALSE, FALSE, FALSE),
       MkHand(0, 4, TRUE, FALSE, FALSE, FALSE)>>}

HorseMaxTicks == 3

HorseCallback ==
    \E dt \in Advances, g \in CamGeometries, d \in Deliveries(HorseHandLists) :
        /\ now + dt <= HorseMaxTicks * TickMs
        /\ onResults(d[1], d[2], now + dt, g)

CamInit ==
    /\ now = TickMs
    /\ canvasReady = TRUE
    /\ isMounted = TRUE
    /\ state = "IDLE"
    /\ rect = ZeroRect
    /\ effectMode = "NORMAL"
    /\ handCount = 0
    /\ resetStartTime = 0
    /\ effectSwitchStartTime = 0
    /\ santaProgress = 0
    /\ pgParticles = 0
    /\ cbSeq = 0
    /\ cb = NoCallback
    /\ resetUnbroken = FALSE
    /\ switchUnbroken = FALSE
    /\ sound = SoundInit
    /\ moves = <<>>
    /\ visited = <<>>

\* the camera right after the victory dwell has switched a frozen rectangle
\* to the horses and the ocean of the shredder has faded out (time is counted
\* from an arbitrary origin)
HorseInit ==
    /\ now = TickMs
    /\ canvasReady = TRUE
    /\ isMounted = TRUE
    /\ state = "FROZEN"
    /\ rect = [x |-> 0, y |-> 3, w |-> 24, h |-> 24]
    /\ effectMode = "SANTA_WALKER"
    /\ handCount = 1
    /\ resetStartTime = 0
    /\ effectSwitchStartTime = 0
    /\ santaProgress = 0
    /\ pgParticles = 0
    /\ cbSeq = 0
    /\ cb = [NoCallback EXCEPT !.ran = TRUE, !.nHands = 1, !.victory = TRUE,
                               !.switchFired = TRUE, !.santaRan = FALSE]
    /\ resetUnbroken = FALSE
    /\ switchUnbroken = TRUE
    /\ sound = [SoundInit EXCEPT !.made = 1, !.calls = <<"stop">>,
                                 !.lastCall = "stop"]
    /\ moves = <<>>
    /\ visited = <<"GRID_STRETCH", "SLICE_3D", "PIXEL_GRID", "SHREDDER",
                   "SANTA_WALKER">>

\* a pending stop timer of the ocean runs out: time has passed to its deadline
OceanTimerFires ==
    /\ sound.timers # <<>>
    /\ now' = Max(now, Head(sound.timers))
    /\ sound' = [stopTimeout(sound) EXCEPT !.calls = <<>>]
    /\ moves' = <<>>
    /\ UNCHANGED <<canvasReady, isMounted, state, rect, effectMode, handCount,
                   resetStartTime, effectSwitchStartTime, santaProgress,
                   pgParticles, cbSeq, cb, resetUnbroken, switchUnbroken,
                   visited>>

\* the sound engine driven by any caller: a call to startOceanSound or to
\* stopOceanSound one tick after the previous step, after every stop timer
\* that was due before it
MaxOceanTicks == 10

OceanCall(start) ==
    /\ now + TickMs <= MaxOceanTicks * TickMs
    /\ sound.timers # <<>> => Head(sound.timers) >= now + TickMs
    /\ now' = now + TickMs
    /\ sound' = IF start
                THEN startOceanSound([sound EXCEPT !.calls = <<>>])
                ELSE stopOceanSound([sound EXCEPT !.calls = <<>>],
                                    now + TickMs)
    /\ UNCHANGED <<canvasReady, isMounted, state, rect, effectMode, handCount,
                   resetStartTime, effectSwitchStartTime, santaProgress,
                   pgParticles, cbSeq, cb, resetUnbroken, switchUnbroken,
                   moves, visited>>

CallStartOcean == OceanCall(TRUE)

CallStopOcean == OceanCall(FALSE)

\* the hands shown to a frozen rectangle: none, a victory hand, two fists
CycleHandLists ==
    {<<>>,
     <<MkHand(0, 4, TRUE, TRUE, FALSE, FALSE)>>,
     <<MkHand(0, 4, FALSE, FALSE, FALSE, FALSE),
       MkHand(24, 36, FALSE, FALSE, FALSE, TRUE)>>}

\* callbacks follow each other closely or after a pause longer than a dwell
LongPauseTicks == 5

CycleAdvances == {TickMs, LongPauseTicks * TickMs}

\* long enough for the cycle to come round to the shredder a second time
MaxCycleTicks == 75

\* a callback runs after every stop timer that was due before it
CycleCallback ==
    \E dt \in CycleAdvances, g \in CamGeometries,
       d \in Deliveries(CycleHandLists) :
        /\ now + dt <= MaxCycleTicks * TickMs
        /\ sound.timers # <<>> => Head(sound.timers) >= now + dt
        /\ onResults(d[1], d[2], now + dt, g)

\* the '1' key, pressed while at most MaxPendingStops - 1 stop timers run
MaxPendingStops == 2

CycleKey ==
    /\ Len(sound.timers) < MaxPendingStops
    /\ handleKey

\* the camera right after a rectangle has been frozen
CycleInit ==
    /\ now = TickMs
    /\ canvasReady = TRUE
    /\ isMounted = TRUE
    /\ state = "FROZEN"
    /\ rect = [x |-> 0, y |-> 3, w |-> 24, h |-> 24]
    /\ effectMode = "NORMAL"
    /\ handCount = 2
    /\ resetStartTime = 0
    /\ effectSwitchStartTime = 0
    /\ santaProgress = 0
    /\ pgParticles = 0
    /\ cbSeq = 0
    /\ cb = [NoCallback EXCEPT !.ran = TRUE, !.nHands = 2]
    /\ resetUnbroken = FALSE
    /\ switchUnbroken = FALSE
    /\ sound = SoundInit
    /\ moves = <<[from |-> "RESIZING", to |-> "FROZEN", via |-> "pinch",
                  effect |-> "NORMAL", particles |-> 0, twoHands |-> TRUE,
                  bothPointing |-> TRUE, bothPinching |-> TRUE]>>
    /\ visited = <<>>

GestureIdle ==
    /\ gFrame = MkHand(0, 4, TRUE, TRUE, TRUE, FALSE)
    /\ gPoses = {}
    /\ gClassified = FALSE

(***************************************************************************)
(* Time-slice camera: the camera feed.  The Camera utility calls onFrame   *)
(* for a new video frame and requests its next frame once the promise      *)
(* onFrame returned has settled.                                           *)
(***************************************************************************)

\* camera onFrame: both detectors are handed the frame, the face mesh only
\* while a hand is on screen
onFrame ==
    /\ ~handsPending /\ ~facePending
    /\ IF ~isMounted
       THEN UNCHANGED feedVars
       ELSE /\ handsPending' = TRUE
            /\ facePending' = (handCount > 0)
            /\ feedLate' = (feedLate \/ ~isMounted)

\* hands.send resolves
HandsSendResolves ==
    /\ handsPending
    /\ handsPending' = FALSE
    /\ UNCHANGED <<facePending, feedLate>>

\* faceMesh.send resolves
FaceSendResolves ==
    /\ facePending
    /\ facePending' = FALSE
    /\ UNCHANGED <<handsPending, feedLate>>

FeedInit ==
    /\ handsPending = FALSE
    /\ facePending = FALSE
    /\ feedLate = FALSE

\* the camera after a first callback that saw up to two open hands
CamSeenHands ==
    /\ now = TickMs
    /\ canvasReady = TRUE
    /\ isMounted = TRUE
    /\ state = "IDLE"
    /\ rect = ZeroRect
    /\ effectMode = "NORMAL"
    /\ handCount \in 0..2
    /\ resetStartTime = 0
    /\ effectSwitchStartTime = 0
    /\ santaProgress = 0
    /\ pgParticles = 0
    /\ cbSeq = 1
    /\ cb = [NoCallback EXCEPT !.ran = TRUE, !.nHands = handCount]
    /\ resetUnbroken = FALSE
    /\ switchUnbroken = FALSE
    /\ sound = SoundInit
    /\ moves = <<>>
    /\ visited = <<>>

(***************************************************************************)
(* Music line: the drawing loop.  Every run of the drawing-loop effect     *)
(* creates its own draw closure; requestRef is shared by all of them.      *)
(***************************************************************************)

MaxEffectRuns == 3

Runs == 1..MaxEffectRuns

NoRun == 0

\* requestRef.current = requestAnimationFrame(draw), called by run r
requestAnimationFrame(r) ==
    /\ mlPc' = [mlPc EXCEPT ![r] = "scheduled"]
    /\ requestRef' = r
    /\ mlLate' = IF r \in mlTorn THEN mlLate \cup {"schedule"} ELSE mlLate

\* draw, up to its await
drawStart(r) ==
    /\ mlPc[r] = "scheduled"
    /\ IF handsEnabled /\ handsRef /\ videoReady
       THEN /\ mlPc' = [mlPc EXCEPT ![r] = "awaiting"]
            /\ mlLate' = IF r \in mlTorn THEN mlLate \cup {"submit"}
                         ELSE mlLate
            /\ UNCHANGED requestRef
       ELSE requestAnimationFrame(r)
    /\ UNCHANGED <<mlRun, mlMounted, handsEnabled, handsRef, videoReady,
                   mlTorn>>

\* draw, after handsRef.current.send has resolved
drawResume(r) ==
    /\ mlPc[r] = "awaiting"
    /\ requestAnimationFrame(r)
    /\ UNCHANGED <<mlRun, mlMounted, handsEnabled, handsRef, videoReady,
                   mlTorn>>

\* cancelAnimationFrame(requestRef.current): only a frame that has not fired
\* yet can be cancelled
cancelAnimationFrame(pc, id) ==
    IF id # NoRun /\ pc[id] = "scheduled"
    THEN [pc EXCEPT ![id] = "cancelled"]
    ELSE pc

\* handleResize -> setDimensions: the effect is cleaned up and run again
handleResize ==
    /\ mlMounted
    /\ mlRun < MaxEffectRuns
    /\ mlTorn' = mlTorn \cup {mlRun}
    /\ mlRun' = mlRun + 1
    /\ mlPc' = [cancelAnimationFrame(mlPc, requestRef)
                   EXCEPT ![mlRun + 1] = "scheduled"]
    /\ requestRef' = mlRun + 1
    /\ UNCHANGED <<mlMounted, handsEnabled, handsRef, videoReady, mlLate>>

\* the component unmounts
MusicUnmount ==
    /\ mlMounted
    /\ mlMounted' = FALSE
    /\ mlTorn' = mlTorn \cup {mlRun}
    /\ mlPc' = cancelAnimationFrame(mlPc, requestRef)
    /\ UNCHANGED <<mlRun, requestRef, handsEnabled, handsRef, videoReady,
                   mlLate>>

toggleHands ==
    /\ mlMounted
    /\ handsEnabled' = ~handsEnabled
    /\ handsRef' = (handsRef \/ ~handsEnabled)
    /\ UNCHANGED <<mlRun, mlPc, requestRef, mlMounted, videoReady, mlTorn,
                   mlLate>>

\* setupCamera: the stream starts playing
setupCamera ==
    /\ mlMounted
    /\ ~videoReady
    /\ videoReady' = TRUE
    /\ UNCHANGED <<mlRun, mlPc, requestRef, mlMounted, handsEnabled, handsRef,
                   mlTorn, mlLate>>

MusicInit ==
    /\ mlRun = 1
    /\ mlPc = [r \in Runs |-> IF r = 1 THEN "scheduled" ELSE "none"]
    /\ requestRef = 1
    /\ mlMounted = TRUE
    /\ handsEnabled = FALSE
    /\ handsRef = FALSE
    /\ videoReady = FALSE
    /\ mlTorn = {}
    /\ mlLate = {}

\* submissions to the hand detector that have not resolved
Outstanding == {r \in Runs : mlPc[r] = "awaiting"}

(***************************************************************************)
(* Tear filter (ARCanvas).  The face is projected on the vertical axis:    *)
(* positions are pixel rows, progress along the face path is counted in    *)
(* thousandths.  Date.now() only enters through differences, so the model  *)
(* keeps the time since the last spawn and the time a rewinding tear still *)
(* has to wait; every physics tick advances the clock by FrameMs.  Both    *)
(* eyes lie on the same pixel row, so a tear does not carry its side.      *)
(***************************************************************************)

FrameMs == 16
SpawnInterval == 35
StaggerMs == 60
SpeedTenths == 8
TopSpawnY == -50
GroundY == 300
FallSpeed == 40
MaxTyped == 1
MaxRewinds == 1

SinceCap == SpawnInterval + 1

\* a landmark that the list does not hold is 0
NoFace == [id |-> "none", eye |-> 0, cheek |-> 0, chin |-> 0]
FaceShort == [id |-> "short", eye |-> 0, cheek |-> 0, chin |-> 0]
FaceA == [id |-> "A", eye |-> 100, cheek |-> 160, chin |-> 220]
FaceB == [id |-> "B", eye |-> 100, cheek |-> 180, chin |-> 284]

HasFace(f) == f.id # "none"
HasEye(f) == HasFace(f) /\ f.eye # 0
HasPath(f) == HasFace(f) /\ f.eye # 0 /\ f.cheek # 0 /\ f.chin # 0

Chars == {"a"}

Sign(d) == IF d > 0 THEN 1 ELSE IF d < 0 THEN -1 ELSE 0

ChinFlySpeed == SpeedTenths * 2
OriginFlySpeed == (SpeedTenths * 25) \div 10

\* 0.04 * speed, in thousandths
RewindDecrement == 4 * SpeedTenths

\* quadratic Bezier through eye, cheek and chin at progress t
Bezier(f, t) ==
    ((1000 - t) * (1000 - t) * f.eye + 2 * (1000 - t) * t * f.cheek
        + t * t * f.chin) \div 1000000

\* faceMesh.onResults: the first face of the results, or null
StoreFaceKeepLast(old, faces) == IF Len(faces) > 0 THEN faces[1] ELSE old

StoreFace(old, faces) == IF Len(faces) > 0 THEN faces[1] ELSE NoFace

\* hands.onResults: the hands of the results, or null (the empty list)
StoreHands(old, hands) == IF Len(hands) > 0 THEN hands ELSE <<>>

\* mutant of RewindBody: a tear that is back at its origin is let fall again
RewindBodyDropped(b, f, camOn) ==
    IF b.wait - FrameMs <= 0 /\ ~(camOn /\ HasFace(f) /\ HasPath(f))
    THEN <<[b EXCEPT !.state = "falling", !.wait = 0, !.vy = 0]>>
    ELSE <<[b EXCEPT !.wait = Max(b.wait - FrameMs, 0), !.vy = 0]>>

\* REWIND LOGIC of beforeUpdate for one tear: the tear, or nothing once it
\* is removed from the world
RewindBody(b, f, camOn) ==
    LET w == Max(b.wait - FrameMs, 0)
        toChin == f.chin - b.y
        p == b.progress - RewindDecrement
        toOrigin == b.origin - b.y
    IN  IF w > 0
        THEN <<[b EXCEPT !.wait = w, !.vy = 0]>>
        ELSE IF camOn /\ HasFace(f) /\ HasPath(f)
        THEN IF b.progress >= 1000
             THEN IF 2 * Abs(toChin) < 3 * ChinFlySpeed
                  THEN <<[b EXCEPT !.wait = 0, !.progress = 990]>>
                  ELSE <<[b EXCEPT !.wait = 0,
                                   !.vy = Sign(toChin) * ChinFlySpeed]>>
             ELSE IF p <= 0
                  THEN <<>>
                  ELSE <<[b EXCEPT !.wait = 0, !.progress = p,
                                   !.y = Bezier(f, p), !.vy = 0]>>
        ELSE IF Abs(toOrigin) < OriginFlySpeed
             THEN <<>>
             ELSE <<[b EXCEPT !.wait = 0,
                              !.vy = Sign(toOrigin) * OriginFlySpeed]>>

\* Sliding on Face Logic of beforeUpdate for one tear
SlideBody(b, f, camOn) ==
    LET p == b.progress + 10 + (3 * b.progress) \div 100
    IN  IF camOn /\ HasFace(f) /\ HasPath(f)
        THEN [b EXCEPT !.y = Bezier(f, b.progress), !.vy = 0, !.progress = p,
                       !.state = IF p >= 1000 THEN "falling" ELSE "sliding",
                       !.sensor = IF p >= 1000 THEN FALSE ELSE b.sensor]
        ELSE [b EXCEPT !.state = "falling", !.sensor = FALSE]

StepBody(b, f, camOn) ==
    IF b.state = "rewinding" THEN RewindBody(b, f, camOn)
    ELSE IF b.state = "sliding" THEN <<SlideBody(b, f, camOn)>>
    ELSE <<b>>

RECURSIVE StepAll(_, _, _)
StepAll(bs, f, camOn) ==
    IF bs = <<>> THEN <<>>
    ELSE StepBody(Head(bs), f, camOn) \o StepAll(Tail(bs), f, camOn)

\* Engine.update after beforeUpdate: a falling tear drops until the ground
\* holds it, any other tear moves by the velocity the handler gave it
Integrate(b) ==
    IF b.state = "falling"
    THEN [b EXCEPT !.y = Min(b.y + FallSpeed, GroundY)]
    ELSE [b EXCEPT !.y = b.y + b.vy]

\* Spawning Logic: where the next tear appears, if anywhere
SpawnPosAnyFallback(f, camOn) ==
    IF camOn /\ HasFace(f) /\ HasEye(f) THEN [ok |-> TRUE, y |-> f.eye]
    ELSE [ok |-> TRUE, y |-> TopSpawnY]

SpawnPos(f, camOn) ==
    IF camOn /\ HasFace(f)
    THEN IF HasEye(f) THEN [ok |-> TRUE, y |-> f.eye]
         ELSE [ok |-> FALSE, y |-> 0]
    ELSE IF ~camOn THEN [ok |-> TRUE, y |-> TopSpawnY]
    ELSE [ok |-> FALSE, y |-> 0]

\* handleTextConsumed
handleTextConsumed(q) == IF Len(q) > 0 THEN Tail(q) ELSE q

Ids(bs) == {bs[i].id : i \in 1..Len(bs)}

NoTick == [ran |-> FALSE, starved |-> FALSE, spawned |-> FALSE,
           readsLatest |-> TRUE]

\* the parent re-renders, and the textQueue effect runs, before a character
\* that was already consumed comes due again
QueueSynced ==
    \/ /\ Len(textQueueRef) <= Len(textQueue)
       /\ textQueueRef = SubSeq(textQueue, 1, Len(textQueueRef))
    \/ sinceSpawn + FrameMs <= SpawnInterval

\* one physics tick: beforeUpdate, then the engine update
PhysicsTick ==
    LET f == faceLandmarksRef
        camOn == isCameraOn
        elapsed == Min(sinceSpawn + FrameMs, SinceCap)
        queued == Len(textQueueRef) > 0
        due == elapsed > SpawnInterval
        pos == SpawnPos(f, camOn)
        spawns == queued /\ due /\ pos.ok
        stepped == StepAll(bodies, f, camOn)
        tear == [id |-> nextId, char |-> textQueueRef[1],
                 state |-> IF camOn THEN "sliding" ELSE "falling",
                 progress |-> 0, y |-> pos.y, origin |-> pos.y, wait |-> 0,
                 sensor |-> camOn, vy |-> 0]
        world == IF spawns THEN Append(stepped, tear) ELSE stepped
    IN  /\ bodies' = [i \in 1..Len(world) |-> Integrate(world[i])]
        /\ nextId' = IF spawns THEN nextId + 1 ELSE nextId
        /\ sinceSpawn' = IF spawns THEN 0 ELSE elapsed
        /\ textQueue' = IF spawns THEN handleTextConsumed(textQueue)
                        ELSE textQueue
        /\ tk' = [ran |-> TRUE,
                  starved |-> queued /\ due /\ camOn /\ ~HasEye(f),
                  spawned |-> spawns,
                  readsLatest |-> /\ f = StoreFace(NoFace, deliveredFace)
                                  /\ handLandmarksRef = deliveredHands]
        /\ UNCHANGED <<isCameraOn, faceLandmarksRef, handLandmarksRef,
                       textQueueRef, typed, rewinds, rewound, deliveredFace,
                       deliveredHands>>

\* a tick of a run in which the textQueue effect keeps up with the spawning
TearTick == QueueSynced /\ PhysicsTick

\* the textQueue effect copies the parent's queue into the ref
SyncQueue ==
    /\ textQueueRef # textQueue
    /\ textQueueRef' = textQueue
    /\ UNCHANGED <<isCameraOn, faceLandmarksRef, handLandmarksRef, textQueue,
                   sinceSpawn, bodies, nextId, typed, rewinds, rewound,
                   deliveredFace, deliveredHands, tk>>

handleQueueText ==
    /\ typed < MaxTyped
    /\ \E c \in Chars : textQueue' = Append(textQueue, c)
    /\ typed' = typed + 1
    /\ UNCHANGED <<isCameraOn, faceLandmarksRef, handLandmarksRef,
                   textQueueRef, sinceSpawn, bodies, nextId, rewinds, rewound,
                   deliveredFace, deliveredHands, tk>>

\* the text typed into the queue in the runs that follow its characters
QueueLetters == <<"a", "b", "c", "d">>

MaxQueued == 2
MaxTears == 3

\* handleQueueText with the next one or two characters of the text
QueueTyping ==
    \E k \in 1..2 :
        /\ typed + k <= MaxQueued
        /\ textQueue' = textQueue \o SubSeq(QueueLetters, typed + 1, typed + k)
        /\ typed' = typed + k
        /\ UNCHANGED <<isCameraOn, faceLandmarksRef, handLandmarksRef,
                       textQueueRef, sinceSpawn, bodies, nextId, rewinds,
                       rewound, deliveredFace, deliveredHands, tk>>

\* a physics tick whenever the runner fires, whether or not the textQueue
\* effect has run since the last spawn
QueueTick == Len(bodies) < MaxTears /\ PhysicsTick

\* a character typed once the tear of the one before has left the world:
\* tears do not act on one another, so one tear at a time is followed
LifeTyping == bodies = <<>> /\ textQueue = <<>> /\ handleQueueText

handleToggleCamera ==
    /\ isCameraOn' = ~isCameraOn
    /\ UNCHANGED <<faceLandmarksRef, handLandmarksRef, textQueue,
                   textQueueRef, sinceSpawn, bodies, nextId, typed, rewinds,
                   rewound, deliveredFace, deliveredHands, tk>>

\* faceMesh.onResults
faceOnResults(faces) ==
    /\ faceLandmarksRef' = StoreFace(faceLandmarksRef, faces)
    /\ deliveredFace' = faces
    /\ UNCHANGED <<isCameraOn, handLandmarksRef, textQueue, textQueueRef,
                   sinceSpawn, bodies, nextId, typed, rewinds, rewound,
                   deliveredHands, tk>>

\* hands.onResults
handsOnResults(hands) ==
    /\ handLandmarksRef' = StoreHands(handLandmarksRef, hands)
    /\ deliveredHands' = hands
    /\ UNCHANGED <<isCameraOn, faceLandmarksRef, textQueue, textQueueRef,
                   sinceSpawn, bodies, nextId, typed, rewinds, rewound,
                   deliveredFace, tk>>

\* handleRewind: newest tear first, each 60 ms after the one before
handleRewind ==
    /\ rewinds < MaxRewinds
    /\ rewinds' = rewinds + 1
    /\ bodies' = [i \in 1..Len(bodies) |->
                    [bodies[i] EXCEPT !.state = "rewinding",
                                      !.wait = (Len(bodies) - i) * StaggerMs,
                                      !.sensor = TRUE, !.vy = 0]]
    /\ rewound' = Ids(bodies)
    /\ UNCHANGED <<isCameraOn, faceLandmarksRef, handLandmarksRef, textQueue,
                   textQueueRef, sinceSpawn, nextId, typed, deliveredFace,
                   deliveredHands, tk>>

\* handleClear: every tear is removed
handleClear ==
    /\ bodies # <<>>
    /\ bodies' = <<>>
    /\ UNCHANGED <<isCameraOn, faceLandmarksRef, handLandmarksRef, textQueue,
                   textQueueRef, sinceSpawn, nextId, typed, rewinds, rewound,
                   deliveredFace, deliveredHands, tk>>

TearFaceResults == {<<>>, <<FaceA>>, <<FaceShort>>}
RewindFaceResults == {<<>>, <<FaceA>>, <<FaceB>>}
LifeFaceResults == {<<>>, <<FaceA>>}
TearHandResults == {<<>>, <<"hand">>}

TearInit ==
    /\ isCameraOn = TRUE
    /\ faceLandmarksRef = NoFace
    /\ handLandmarksRef = <<>>
    /\ textQueue = <<>>
    /\ textQueueRef = <<>>
    /\ sinceSpawn = SinceCap
    /\ bodies = <<>>
    /\ nextId = 1
    /\ typed = 0
    /\ rewinds = 0
    /\ rewound = {}
    /\ deliveredFace = <<>>
    /\ deliveredHands = <<>>
    /\ tk = NoTick

MidSlideTicks == 20

\* progress of a sliding tear n ticks after it was spawned
RECURSIVE SlideAfter(_)
SlideAfter(n) ==
    IF n = 0 THEN 0
    ELSE LET p == SlideAfter(n - 1) IN p + 10 + (3 * p) \div 100

\* progress of a tear that has slid down the whole face
RECURSIVE SlideEnd(_)
SlideEnd(p) == IF p >= 1000 THEN p ELSE SlideEnd(p + 10 + (3 * p) \div 100)

\* two characters were typed in front of a face: the first tear has slid
\* down the whole face and dropped to the ground, the second dropped from
\* the cheek when the face was lost for a moment
RewindInit ==
    /\ isCameraOn = TRUE
    /\ faceLandmarksRef = FaceA
    /\ handLandmarksRef = <<>>
    /\ textQueue = <<>>
    /\ textQueueRef = <<>>
    /\ sinceSpawn = SinceCap
    /\ bodies = <<[id |-> 1, char |-> "a", state |-> "falling",
                   progress |-> SlideEnd(0), y |-> GroundY,
                   origin |-> FaceA.eye, wait |-> 0, sensor |-> FALSE,
                   vy |-> 0],
                  [id |-> 2, char |-> "a", state |-> "falling",
                   progress |-> SlideAfter(MidSlideTicks), y |-> GroundY,
                   origin |-> FaceA.eye, wait |-> 0, sensor |-> FALSE,
                   vy |-> 0]>>
    /\ nextId = 3
    /\ typed = 2
    /\ rewinds = 0
    /\ rewound = {}
    /\ deliveredFace = <<FaceA>>
    /\ deliveredHands = <<>>
    /\ tk = [NoTick EXCEPT !.ran = TRUE]

(***************************************************************************)
(* AR game: the particle list.  A particle's life is counted in steps of   *)
(* 0.02; in IEEE doubles the fiftieth subtraction from 1.0 gives a value   *)
(* just below zero, as it does here.                                       *)
(***************************************************************************)

LifeStart == 50
SparkCount == 15
DustCount == 8
MaxParticles == 34

Particle(type) == [type |-> type, life |-> LifeStart, age |-> 0]

Repeat(n, x) == [i \in 1..n |-> x]

\* createExplosion: sparks, a ring and the score popup
createExplosion(ps) ==
    ps \o Repeat(SparkCount, Particle("spark"))
       \o <<Particle("ring"), Particle("text")>>

\* createMissEffect: dust and the MISS popup
createMissEffect(ps) ==
    ps \o Repeat(DustCount, Particle("dust")) \o <<Particle("text")>>

ExpiredBelowZero(life) == life < 0

\* if (p.life <= 0) splice
Expired(life) == life <= 0

\* Update & Draw Particles: the list is walked from its end, every particle
\* loses one step of life and is spliced out once it has none left; a splice
\* at i moves only particles the walk has already visited, so the outcome is
\* the survivors of ps[1..i] in their order
RECURSIVE UpdateParticles(_, _)
UpdateParticles(ps, i) ==
    IF i = 0 THEN <<>>
    ELSE LET p == [ps[i] EXCEPT !.life = @ - 1, !.age = @ + 1]
         IN  UpdateParticles(ps, i - 1)
                 \o (IF Expired(p.life) THEN <<>> ELSE <<p>>)

GameEvents == {"none", "hit", "miss"}

\* the particles a frame's targets add
TargetsLoop(ps, event) ==
    IF event = "hit" THEN createExplosion(ps)
    ELSE IF event = "miss" THEN createMissEffect(ps)
    ELSE ps

\* one camera frame: updateGameEngine runs only while the game is active
GameFrame ==
    \E event \in GameEvents :
        LET added == TargetsLoop(particles, event)
            after == UpdateParticles(added, Len(added))
        IN  /\ Len(added) <= MaxParticles
            /\ IF gameActive
               THEN /\ particles' = after
                    /\ gk' = [ran |-> TRUE,
                              created |-> Len(added) - Len(particles),
                              removed |-> Len(added) - Len(after)]
               ELSE /\ particles' = particles
                    /\ gk' = [ran |-> FALSE, created |-> 0, removed |-> 0]
            /\ UNCHANGED gameActive

\* isPlaying changes: a new game starts with an empty particle list
setIsPlaying ==
    /\ gameActive' = ~gameActive
    /\ particles' = IF ~gameActive THEN <<>> ELSE particles
    /\ UNCHANGED gk

GameInit ==
    /\ gameActive = FALSE
    /\ particles = <<>>
    /\ gk = [ran |-> FALSE, created |-> 0, removed |-> 0]

(***************************************************************************)
(* Coordinate mappers.  Both map a normalised landmark position to canvas  *)
(* pixels with a "cover" scale: onResults' getScreenCoord (time-slice      *)
(* camera) and ARCanvas' getMappedCoords (tear filter).  The arithmetic is *)
(* exact: every length is kept in units of 1 / MapUnit(g) pixel, which     *)
(* makes all the divisions of the code come out even.                      *)
(***************************************************************************)

\* canvas sizes are multiples of CanvasStepPx, up to MaxCanvasIdx steps
CanvasStepPx == 60
MaxCanvasIdx == 3
\* the zoom slider: min 0.5, max 2, step 0.1; in tenths
ZoomMinTenths == 5
ZoomMaxTenths == 20

CanvasSizes == {k * CanvasStepPx : k \in 1..MaxCanvasIdx}
\* the videos are 1280 x 720 and 640 x 480, in units of 80 pixels: only the
\* quotients canvas / video times video enter the result
VideoSizes == {<<16, 9>>, <<8, 6>>}

MapGeometries ==
    {[canvasW |-> cw, canvasH |-> ch, imgW |-> v[1], imgH |-> v[2],
      zoom10 |-> z] :
        cw \in CanvasSizes, ch \in CanvasSizes, v \in VideoSizes,
        z \in ZoomMinTenths..ZoomMaxTenths}

MapUnit(g) == 20 * g.imgW * g.imgH

\* Math.max(cW / vW, cH / vH) * vW and * vH, in units of 10 / MapUnit pixel
TargetW(g) ==
    IF CoverByWidth(g) THEN 2 * g.canvasW * g.imgW * g.imgH
    ELSE 2 * g.canvasH * g.imgW * g.imgW
TargetH(g) ==
    IF CoverByWidth(g) THEN 2 * g.canvasW * g.imgH * g.imgH
    ELSE 2 * g.canvasH * g.imgW * g.imgH

\* mutant of Centre: the whole slack is put on the left / top
CentreAll(canvas, drawn) == canvas - drawn

\* (canvas - drawn) / 2
Centre(canvas, drawn) == (canvas - drawn) \div 2

\* getScreenCoord: scale = baseScale * zoom, offset = (canvas - draw) / 2
getScreenCoordExact(g, nx, ny) ==
    LET drawW == TargetW(g) * g.zoom10
        drawH == TargetH(g) * g.zoom10
        offsetX == Centre(g.canvasW * MapUnit(g), drawW)
        offsetY == Centre(g.canvasH * MapUnit(g), drawH)
    IN  [x |-> offsetX + (nx * drawW) \div 100,
         y |-> offsetY + (ny * drawH) \div 100]

\* getMappedCoords: cover without zoom, then zoom about the canvas centre
getMappedCoords(g, nx, ny, mirrorX) ==
    LET targetW == TargetW(g) * 10
        targetH == TargetH(g) * 10
        cW == g.canvasW * MapUnit(g)
        cH == g.canvasH * MapUnit(g)
        offX == Centre(cW, targetW)
        offY == Centre(cH, targetH)
        px == IF mirrorX THEN 100 - nx ELSE nx
        ucX == offX + (px * targetW) \div 100
        ucY == offY + (ny * targetH) \div 100
    IN  [x |-> cW \div 2 + ((ucX - cW \div 2) * g.zoom10) \div 10,
         y |-> cH \div 2 + ((ucY - cH \div 2) * g.zoom10) \div 10]

\* the image of the unit square and of its centre under a mapper
MapImage(fn, g, p00, p11, mid) ==
    [fn |-> fn,
     left |-> Min(p00.x, p11.x), right |-> Max(p00.x, p11.x),
     top |-> Min(p00.y, p11.y), bottom |-> Max(p00.y, p11.y),
     midX |-> mid.x, midY |-> mid.y,
     canvasW |-> g.canvasW * MapUnit(g), canvasH |-> g.canvasH * MapUnit(g)]

NoImage ==
    [fn |-> "none", left |-> 0, right |-> 0, top |-> 0, bottom |-> 0,
     midX |-> 0, midY |-> 0, canvasW |-> 0, canvasH |-> 0]

\* the time-slice camera maps the corners of the unit square
CameraMap ==
    /\ mapOut.fn = "none"
    /\ mapOut' = MapImage("getScreenCoord", mapGeo,
                          getScreenCoordExact(mapGeo, 0, 0),
                          getScreenCoordExact(mapGeo, 100, 100),
                          getScreenCoordExact(mapGeo, 50, 50))
    /\ UNCHANGED <<mapGeo, mapMirror>>

\* the tear filter maps the corners of the unit square
TearMap ==
    /\ mapOut.fn = "none"
    /\ mapOut' = MapImage("getMappedCoords", mapGeo,
                          getMappedCoords(mapGeo, 0, 0, mapMirror),
                          getMappedCoords(mapGeo, 100, 100, mapMirror),
                          getMappedCoords(mapGeo, 50, 50, mapMirror))
    /\ UNCHANGED <<mapGeo, mapMirror>>

MapInit ==
    /\ mapGeo \in MapGeometries
    /\ mapMirror \in BOOLEAN
    /\ mapOut = NoImage

\* no mapping is under study
MapIdle ==
    /\ mapGeo = [canvasW |-> CanvasStepPx, canvasH |-> CanvasStepPx,
                 imgW |-> 8, imgH |-> 6, zoom10 |-> 10]
    /\ mapMirror = FALSE
    /\ mapOut = NoImage

(***************************************************************************)
(* The horse puppet (SantaPuppet.update, PUPPET mode).  Of the five        *)
(* strings the model follows the index finger (front left knee and hoof)   *)
(* and the middle finger (head); the other legs run the same code.         *)
(* Positions are canvas pixels.                                            *)
(***************************************************************************)

\* fingertips are shown at multiples of RigStepPx, from one step left of /
\* above the canvas origin up to MaxRigIdx - 1 steps inside
RigStepPx == 30
MaxRigIdx == 3
\* legUpperLength, legLowerLength, bodyHeight
LegUpperLength == 25
LegLowerLength == 25
BodyHeight == 30
\* KNEE targets stay 10 px above the floor, HEAD targets 20 px below the
\* standing height
KneeClearance == 10
HeadSlack == 20

StandHeight == LegUpperLength + LegLowerLength + BodyHeight \div 2

FingerCoords == {(k - 1) * RigStepPx : k \in 0..MaxRigIdx}
\* the middle fingertip lies right of and above the index fingertip
MiddleDx == 8
MiddleUp == 12

\* frozen rectangles: roomy, flat (lower than the knee clearance), empty
RigRects ==
    {[x |-> 10, y |-> 10, w |-> 40, h |-> 100],
     [x |-> 10, y |-> 20, w |-> 40, h |-> 8],
     [x |-> 40, y |-> 40, w |-> 0, h |-> 0]}

Point(px, py) == [x |-> px, y |-> py]

\* lerpPoint with speed 0.25 and 0.4, in hundredths
PuppetSmooth == 25
HoofSmooth == 40
lerpPoint(current, target, speed100) ==
    Point(current.x + ((target.x - current.x) * speed100) \div 100,
          current.y + ((target.y - current.y) * speed100) \div 100)

\* mutant of solveControlPoint: the target is not lifted back to rect.y
solveControlPointNoLift(r, fx, fy, type) ==
    LET floorY == r.y + r.h
        tx == Max(r.x, Min(r.x + r.w, fx))
        ty == fy + (r.h * 4) \div 10
    IN  Point(tx, IF type = "KNEE" THEN Min(floorY - KneeClearance, ty)
                  ELSE Min(floorY - StandHeight + HeadSlack, ty))

\* solveControlPoint: the physics target under the fingertip (fx, fy)
solveControlPoint(r, fx, fy, type) ==
    LET floorY == r.y + r.h
        tx == Max(r.x, Min(r.x + r.w, fx))
        stringLen == (r.h * 4) \div 10
        ty == fy + stringLen
        capped == IF type = "KNEE" THEN Min(floorY - KneeClearance, ty)
                  ELSE Min(floorY - StandHeight + HeadSlack, ty)
    IN  Point(tx, Max(r.y, capped))

\* resolveHoof's target: below the knee, not below the floor
HoofTarget(r, knee) ==
    LET floorY == r.y + r.h
        targetY == knee.y + LegLowerLength
    IN  Point(knee.x, IF targetY > floorY THEN floorY ELSE targetY)

\* the puppet is followed for MaxRigUpdates frames
MaxRigUpdates == 4

NoRig ==
    [ran |-> FALSE, n |-> 0, knee |-> Point(0, 0), head |-> Point(0, 0),
     hoof |-> Point(0, 0)]

\* update('PUPPET', rect, ..., handLandmarks, screenW, screenH)
PuppetUpdate ==
    \E ix \in FingerCoords, iy \in FingerCoords :
        LET mx == ix + MiddleDx
            my == iy - MiddleUp
            rFL == solveControlPoint(rigRect, ix, iy, "KNEE")
            rHead == solveControlPoint(rigRect, mx, my, "HEAD")
            knee == lerpPoint(flKnee, rFL, PuppetSmooth)
            hoofT == HoofTarget(rigRect, knee)
        IN  /\ rigOut.n < MaxRigUpdates
            /\ head' = lerpPoint(head, rHead, PuppetSmooth)
            /\ flKnee' = knee
            /\ flHoof' = lerpPoint(flHoof, hoofT, HoofSmooth)
            /\ rigOut' = [ran |-> TRUE, n |-> rigOut.n + 1, knee |-> rFL,
                          head |-> rHead, hoof |-> hoofT]
            /\ UNCHANGED rigRect

\* a new puppet, handed one of the frozen rectangles
RigInit ==
    /\ rigRect \in RigRects
    /\ flKnee = Point(0, 0)
    /\ flHoof = Point(0, 0)
    /\ head = Point(0, 0)
    /\ rigOut = NoRig

\* no puppet is under study
RigIdle ==
    /\ rigRect = ZeroRect
    /\ flKnee = Point(0, 0)
    /\ flHoof = Point(0, 0)
    /\ head = Point(0, 0)
    /\ rigOut = NoRig

(***************************************************************************)
(* Tear filter: pointing at buttons (afterRender).  Times in ms; a hand    *)
(* of a frame is what it points at: "none" when it is not pointing up,     *)
(* "off" when no element lies under the fingertip, "blank" for an element  *)
(* that is no button, or a button.                                         *)
(***************************************************************************)

DWELL_TIME == 600
ClickPauseMs == 1000

Buttons == {"A", "B"}
PointTargets == {"none", "off", "blank"} \cup Buttons

\* the time between two rendered frames, and how long frames are followed
PointFrameMs == 200
MaxPointFrames == 12

\* the hands of a frame: the empty list when handLandmarksRef is null or
\* the camera is off, else one or two hands
PointHandLists ==
    {<<>>} \cup {<<a>> : a \in PointTargets}
           \cup {<<a, b>> : a \in PointTargets, b \in PointTargets}

\* the interaction logic for one hand of a frame rendered at time t
PointAt(li, target, t) ==
    IF target \in Buttons
    THEN IF li.element # target
         THEN [element |-> target, startTime |-> t, click |-> "null"]
         ELSE IF t - li.startTime > DWELL_TIME
         THEN [element |-> target, startTime |-> t + ClickPauseMs,
               click |-> target]
         ELSE [li EXCEPT !.click = "null"]
    ELSE IF target = "off"
    THEN [li EXCEPT !.click = "null"]
    ELSE [li EXCEPT !.element = "null", !.click = "null"]

NoHold == [btn |-> "null", since |-> 0, clicked |-> FALSE]

\* what a hand has pointed at in every frame up to this one
Hold(old, hands, h, t, clicked) ==
    IF h <= Len(hands) /\ hands[h] \in Buttons
    THEN IF old.btn = hands[h]
         THEN [old EXCEPT !.clicked = @ \/ hands[h] \in clicked]
         ELSE [btn |-> hands[h], since |-> t,
               clicked |-> hands[h] \in clicked]
    ELSE NoHold

\* afterRender, part 2: the hands of the frame, one after the other
afterRender ==
    \E hands \in PointHandLists :
        LET t == pointNow + PointFrameMs
            start == [element |-> lastInteractRef.element,
                      startTime |-> lastInteractRef.startTime,
                      click |-> "null"]
            one == IF Len(hands) >= 1 THEN PointAt(start, hands[1], t)
                   ELSE start
            two == IF Len(hands) >= 2 THEN PointAt(one, hands[2], t)
                   ELSE [one EXCEPT !.click = "null"]
            clicked == {one.click, two.click} \ {"null"}
        IN  /\ t <= MaxPointFrames * PointFrameMs
            /\ pointNow' = t
            /\ lastInteractRef' = [element |-> two.element,
                                   startTime |-> two.startTime]
            /\ clicks' = clicked
            /\ held' = [h \in 1..2 |-> Hold(held[h], hands, h, t, clicked)]

PointInit ==
    /\ lastInteractRef = [element |-> "null", startTime |-> 0]
    /\ pointNow = 0
    /\ held = [h \in 1..2 |-> NoHold]
    /\ clicks = {}

\* the stateless helpers at rest, no frame rendered yet
RestIdle == MapIdle /\ RigIdle /\ PointInit

(***************************************************************************)
(* Specifications.                                                         *)
(***************************************************************************)

NextGesture ==
    Classify /\ UNCHANGED <<camVars, feedVars, mlVars, tearVars,
                            gameVars, restVars>>

InitGesture ==
    GestureInit /\ CamInit /\ FeedInit /\ MusicInit /\ TearInit /\ GameInit
        /\ RestIdle

SpecGesture == InitGesture /\ [][NextGesture]_vars

NextCam ==
    (HandsCallback \/ handleKey \/ CamUnmount)
        /\ UNCHANGED <<gestVars, feedVars, mlVars, tearVars,
                       gameVars, restVars>>

InitCam ==
    CamInit /\ GestureIdle /\ FeedInit /\ MusicInit /\ TearInit /\ GameInit
        /\ RestIdle

SpecCam == InitCam /\ [][NextCam]_vars

NextHorse ==
    (HorseCallback \/ handleKey)
        /\ UNCHANGED <<gestVars, feedVars, mlVars, tearVars,
                       gameVars, restVars>>

InitHorse ==
    HorseInit /\ GestureIdle /\ FeedInit /\ MusicInit /\ TearInit /\ GameInit
        /\ RestIdle

SpecHorse == InitHorse /\ [][NextHorse]_vars

NextCycle ==
    (CycleCallback \/ CycleKey \/ OceanTimerFires)
        /\ UNCHANGED <<gestVars, feedVars, mlVars, tearVars,
                       gameVars, restVars>>

InitCycle ==
    CycleInit /\ GestureIdle /\ FeedInit /\ MusicInit /\ TearInit /\ GameInit
        /\ RestIdle

SpecCycle == InitCycle /\ [][NextCycle]_vars

NextOcean ==
    (CallStartOcean \/ CallStopOcean \/ OceanTimerFires)
        /\ UNCHANGED <<gestVars, feedVars, mlVars, tearVars,
                       gameVars, restVars>>

InitOcean ==
    CamInit /\ GestureIdle /\ FeedInit /\ MusicInit /\ TearInit /\ GameInit
        /\ RestIdle

SpecOcean == InitOcean /\ [][NextOcean]_vars

NextFeed ==
    \/ (onFrame \/ HandsSendResolves \/ FaceSendResolves)
           /\ UNCHANGED <<gestVars, camVars, mlVars, tearVars,
                          gameVars, restVars>>
    \/ CamUnmount
           /\ UNCHANGED <<gestVars, feedVars, mlVars, tearVars,
                          gameVars, restVars>>

NextMusic ==
    /\ \/ \E r \in Runs : drawStart(r)
       \/ \E r \in Runs : drawResume(r)
       \/ handleResize
       \/ MusicUnmount
       \/ toggleHands
       \/ setupCamera
    /\ UNCHANGED <<gestVars, camVars, feedVars, tearVars, gameVars, restVars>>

NextLoop == NextFeed \/ NextMusic

InitLoop ==
    CamSeenHands /\ GestureIdle /\ FeedInit /\ MusicInit /\ TearInit /\ GameInit
        /\ RestIdle

SpecLoop == InitLoop /\ [][NextLoop]_vars

NextTear ==
    /\ \/ TearTick
       \/ SyncQueue
       \/ handleQueueText
       \/ handleToggleCamera
       \/ \E faces \in TearFaceResults : faceOnResults(faces)
       \/ \E hands \in TearHandResults : handsOnResults(hands)
       \/ handleClear
    /\ UNCHANGED <<gestVars, camVars, feedVars, mlVars, gameVars, restVars>>

InitTear ==
    TearInit /\ GestureIdle /\ CamInit /\ FeedInit /\ MusicInit /\ GameInit
        /\ RestIdle

SpecTear == InitTear /\ [][NextTear]_vars

NextQueue ==
    /\ \/ QueueTick
       \/ SyncQueue
       \/ QueueTyping
       \/ handleToggleCamera
    /\ UNCHANGED <<gestVars, camVars, feedVars, mlVars, gameVars, restVars>>

InitQueue ==
    TearInit /\ GestureIdle /\ CamInit /\ FeedInit /\ MusicInit /\ GameInit
        /\ RestIdle

SpecQueue == InitQueue /\ [][NextQueue]_vars

NextLife ==
    /\ \/ TearTick
       \/ SyncQueue
       \/ LifeTyping
       \/ handleToggleCamera
       \/ \E faces \in LifeFaceResults : faceOnResults(faces)
       \/ handleRewind
       \/ handleClear
    /\ UNCHANGED <<gestVars, camVars, feedVars, mlVars, gameVars, restVars>>

InitLife ==
    TearInit /\ GestureIdle /\ CamInit /\ FeedInit /\ MusicInit /\ GameInit
        /\ RestIdle

SpecLife == InitLife /\ [][NextLife]_vars

NextPoint ==
    afterRender
        /\ UNCHANGED <<gestVars, camVars, feedVars, mlVars, tearVars, gameVars,
                       mapVars, rigVars>>

InitPoint ==
    GestureIdle /\ CamInit /\ FeedInit /\ MusicInit /\ TearInit /\ GameInit
        /\ RestIdle

SpecPoint == InitPoint /\ [][NextPoint]_vars

NextRewind ==
    /\ \/ TearTick
       \/ handleToggleCamera
       \/ \E faces \in RewindFaceResults : faceOnResults(faces)
       \/ handleRewind
    /\ UNCHANGED <<gestVars, camVars, feedVars, mlVars, gameVars, restVars>>

InitRewind ==
    RewindInit /\ GestureIdle /\ CamInit /\ FeedInit /\ MusicInit /\ GameInit
        /\ RestIdle

\* the physics runner keeps ticking
SpecRewind ==
    InitRewind /\ [][NextRewind]_vars
        /\ WF_vars(TearTick /\ UNCHANGED <<gestVars, camVars, feedVars,
                                          mlVars, gameVars, restVars>>)

NextGame ==
    (GameFrame \/ setIsPlaying)
        /\ UNCHANGED <<gestVars, camVars, feedVars, mlVars, tearVars,
                     restVars>>

InitGame ==
    GameInit /\ GestureIdle /\ CamInit /\ FeedInit /\ MusicInit /\ TearInit
        /\ RestIdle

SpecGame == InitGame /\ [][NextGame]_vars

NextMap ==
    (CameraMap \/ TearMap)
        /\ UNCHANGED <<gestVars, camVars, feedVars, mlVars, tearVars, gameVars,
                       rigVars, pointVars>>

InitMap ==
    MapInit /\ GestureIdle /\ CamInit /\ FeedInit /\ MusicInit /\ TearInit
        /\ GameInit /\ RigIdle /\ PointInit

SpecMap == InitMap /\ [][NextMap]_vars

NextRig ==
    PuppetUpdate
        /\ UNCHANGED <<gestVars, camVars, feedVars, mlVars, tearVars, gameVars,
                       mapVars, pointVars>>

InitRig ==
    RigInit /\ GestureIdle /\ CamInit /\ FeedInit /\ MusicInit /\ TearInit
        /\ GameInit /\ MapIdle /\ PointInit

SpecRig == InitRig /\ [][NextRig]_vars

\* C3 (as stated): at most one of isPointingUp, isHandClosed, isVictoryHand and
\* isPinching is true of a classified hand frame.
C3_AtMostOnePose == gClassified => Cardinality(gPoses) <= 1

\* C3 (amended): at most one of isPointingUp, isHandClosed and isVictoryHand is
\* true of a classified hand frame; isPinching is independent of them.
C3_AtMostOneFingerPose ==
    gClassified => Cardinality(gPoses \ {"pinch"}) <= 1

\* a classified frame that is pointing up and pinching at once
C3_Witness == gClassified /\ gPoses = {"point", "pinch"}


(***************************************************************************)
(* Time-slice camera: dwell timers and the no-hands callback.              *)
(***************************************************************************)

HandsCallbackStep == cbSeq' # cbSeq

\* C1: a dwell-triggered action (two-fist reset, > 1500 ms; victory effect
\* switch, > 2000 ms) fires only in a callback that shows its gesture, with the
\* gesture seen in every callback since the timer was armed and more than the
\* threshold elapsed since arming; a callback without the gesture clears the
\* timer.
C1_DwellFiresOnlyAfterUnbrokenHold ==
    [][HandsCallbackStep =>
        /\ cb'.resetFired =>
             /\ cb'.twoFists
             /\ resetStartTime # 0
             /\ resetUnbroken
             /\ now' - resetStartTime > ResetDwellMs
        /\ cb'.switchFired =>
             /\ cb'.victory
             /\ effectSwitchStartTime # 0
             /\ switchUnbroken
             /\ now' - effectSwitchStartTime > EffectDwellMs
        /\ (cb'.ran /\ ~cb'.twoFists) => resetStartTime' = 0
        /\ (cb'.ran /\ ~cb'.victory) => effectSwitchStartTime' = 0]_vars

\* the victory dwell has just switched the effect
C1_Witness == cb.ran /\ cb.switchFired /\ effectMode = "GRID_STRETCH"

\* the two-fist dwell has just reset the camera
C1_ResetReached == cb.ran /\ cb.resetFired /\ state = "IDLE"

\* C2: a detector callback that reports no hands leaves the application
\* state, the selection rectangle and the effect mode as they were.
C2_NoHandsKeepsState ==
    [][(HandsCallbackStep /\ cb'.nHands = 0) =>
        /\ state' = state
        /\ rect' = rect
        /\ effectMode' = effectMode]_vars

\* a callback without hands has run on a frozen rectangle with an effect on
C2_Witness ==
    /\ cb.ran /\ cb.nHands = 0
    /\ state = "FROZEN" /\ rect.w > 0 /\ effectMode = "GRID_STRETCH"

(***************************************************************************)
(* Time-slice camera: the two horses.                                      *)
(***************************************************************************)

HorseOf(n, k) == IF n >= k THEN "PUPPET" ELSE "AUTO"

\* C8: in a callback of the horse effect, horse 1 is a PUPPET exactly when at
\* least one hand is detected and horse 2 exactly when two are, otherwise the
\* horse is in AUTO; the shared auto-path progress advances only in a callback
\* of the horse effect without hands.
C8_HorsesFollowHands ==
    /\ [](cb.santaRan =>
            /\ cb.horse1 = HorseOf(cb.nHands, 1)
            /\ cb.horse2 = HorseOf(cb.nHands, 2))
    /\ [][(santaProgress' # santaProgress /\ santaProgress' # 0) =>
            /\ HandsCallbackStep
            /\ cb'.santaRan
            /\ cb'.nHands = 0
            /\ cb'.horse1 = "AUTO"]_vars

\* one hand is shown after the horses have galloped on their own for a while
C8_Witness ==
    /\ cb.santaRan /\ cb.nHands = 1
    /\ cb.horse1 = "PUPPET" /\ cb.horse2 = "AUTO"
    /\ santaProgress > 0

\* both horses are puppets
C8_BothPuppets == cb.santaRan /\ cb.horse1 = "PUPPET" /\ cb.horse2 = "PUPPET"

(***************************************************************************)
(* Frame loops.                                                            *)
(***************************************************************************)

\* C4 (as stated): once the cleanup of a frame loop has run, the loop requests
\* no further animation frame and hands no further video frame to a detector.
C4_NoWorkAfterTeardown == mlLate = {} /\ ~feedLate

\* C5 (as stated): at most one submission to a detector is outstanding at any
\* time.
C5_OneOutstandingSubmission == Cardinality(Outstanding) <= 1

(***************************************************************************)
(* Tear filter.                                                            *)
(***************************************************************************)

\* C6: every physics tick works on the landmark sets that the most recent
\* detector callbacks delivered, and the stored sets change only in a step of
\* a detector callback.
C6_TicksReuseLastDelivered ==
    /\ [](tk.readsLatest)
    /\ [][/\ faceLandmarksRef' # faceLandmarksRef =>
                \E faces \in TearFaceResults : faceOnResults(faces)
          /\ handLandmarksRef' # handLandmarksRef =>
                \E hands \in TearHandResults : handsOnResults(hands)]_vars

\* a tear has slid a good way down a face that one callback delivered
C6_Witness ==
    /\ tk.ran /\ tk.readsLatest
    /\ deliveredFace = <<FaceA>>
    /\ \E i \in 1..Len(bodies) :
          bodies[i].state = "sliding" /\ bodies[i].progress > 100

\* C7: a physics tick that runs with the camera on and no eye landmark stored
\* spawns no tear and consumes no queued character.
C7_NoSpawnWithoutFace ==
    [][(TearTick /\ isCameraOn /\ ~HasEye(faceLandmarksRef)) =>
          /\ ~tk'.spawned
          /\ nextId' = nextId
          /\ Ids(bodies') \subseteq Ids(bodies)
          /\ textQueue' = textQueue]_vars

\* a tick found a character due with the camera on and no face, and idled
C7_Witness ==
    /\ tk.ran /\ tk.starved /\ ~tk.spawned
    /\ Len(textQueue) > 0 /\ bodies = <<>>

RewoundGone == Ids(bodies) \cap rewound = {}

\* C9: once a rewind is triggered, every tear that existed at the trigger is
\* eventually removed from the world, physics ticks being weakly fair.
C9_RewoundTearsRemoved == (rewound # {}) ~> RewoundGone

FaceSettles ==
    <>[][faceLandmarksRef' = faceLandmarksRef /\ isCameraOn' = isCameraOn]_vars

\* the removal does happen in every behaviour in which the stored face
\* landmarks and the camera switch eventually stop changing: only a face that
\* keeps coming and going keeps a rewound tear in the world
RemovedOnceFaceSettles == FaceSettles => C9_RewoundTearsRemoved

\* both rewound tears are gone
RewindCompleted == rewinds > 0 /\ rewound = {1, 2} /\ bodies = <<>>

(***************************************************************************)
(* AR game.                                                                *)
(***************************************************************************)

\* C10: every particle in the list has lost 0.02 of its initial life of 1.0
\* in each frame of the running game since it was created and still has life
\* left, so it is gone after fifty frames; a frame removes exactly the
\* particles whose life reached zero.
C10_ParticlesExpire ==
    /\ [](\A i \in 1..Len(particles) :
            /\ particles[i].life = LifeStart - particles[i].age
            /\ particles[i].life > 0
            /\ particles[i].age < LifeStart)
    /\ [][(gameActive /\ gameActive' /\ particles' # particles) =>
            /\ gk'.ran
            /\ gk'.removed = Cardinality({i \in 1..Len(particles) :
                                              particles[i].life = 1})
            /\ Len(particles') =
                 Len(particles) + gk'.created - gk'.removed]_vars

\* an explosion has just burnt out
C10_Witness ==
    /\ gameActive /\ gk.ran
    /\ gk.removed = SparkCount + 2
    /\ particles = <<>>

(***************************************************************************)
(* Coordinate mapper.                                                      *)
(***************************************************************************)

MapCentred ==
    /\ mapOut.left + mapOut.right = mapOut.canvasW
    /\ mapOut.top + mapOut.bottom = mapOut.canvasH
    /\ 2 * mapOut.midX = mapOut.canvasW
    /\ 2 * mapOut.midY = mapOut.canvasH

MapCovers ==
    /\ mapOut.left <= 0 /\ mapOut.right >= mapOut.canvasW
    /\ mapOut.top <= 0 /\ mapOut.bottom >= mapOut.canvasH

\* C11 (as stated): for every canvas size, video size and zoom setting the
\* image of the unit square is centred on the canvas centre and covers the
\* whole canvas.
C11_ImageCentredAndCovers ==
    mapOut.fn # "none" => MapCentred /\ MapCovers

\* C11 (amended): the image of the unit square is centred on the canvas
\* centre for every zoom setting; it covers the whole canvas exactly when
\* the zoom is at least 1.
C11_CentredCoversFromZoomOne ==
    mapOut.fn # "none" =>
        /\ MapCentred
        /\ MapCovers <=> mapGeo.zoom10 >= 10

\* a tall canvas, a wide video, zoomed in: the image overhangs on all sides
C11_Witness ==
    /\ mapOut.fn = "getMappedCoords"
    /\ mapGeo.canvasH > mapGeo.canvasW /\ mapGeo.zoom10 > 10
    /\ mapOut.left < 0 /\ mapOut.top < 0

(***************************************************************************)
(* Horse puppet.                                                           *)
(***************************************************************************)

InRect(p, r) ==
    /\ r.x <= p.x /\ p.x <= r.x + r.w
    /\ r.y <= p.y /\ p.y <= r.y + r.h

\* C12: in PUPPET mode the control targets computed for the knee and the head
\* lie inside the rectangle wherever the fingertips are, and the hoof target
\* is not below the rectangle's floor.
C12_TargetsInBounds ==
    rigOut.ran =>
        /\ InRect(rigOut.knee, rigRect)
        /\ InRect(rigOut.head, rigRect)
        /\ rigOut.hoof.y <= rigRect.y + rigRect.h

\* a fingertip left of and above a flat rectangle: the knee target is pulled
\* to the rectangle's top left corner
C12_Witness ==
    /\ rigOut.ran
    /\ rigRect.h > 0 /\ rigRect.h < KneeClearance
    /\ rigOut.knee = Point(rigRect.x, rigRect.y)

(***************************************************************************)
(* Time-slice camera: the state machine.                                   *)
(***************************************************************************)

MoveAllowed(m) ==
    \/ m.from = "IDLE" /\ m.to = "RESIZING"
           /\ m.twoHands /\ m.bothPointing
    \/ m.from = "RESIZING" /\ m.to = "FROZEN"
           /\ m.twoHands /\ m.bothPinching
    \/ m.to = "IDLE" /\ m.via = "reset"

\* C13: every assignment to the camera's state is IDLE -> RESIZING in a
\* callback with exactly two hands both pointing up, RESIZING -> FROZEN in a
\* callback with exactly two hands both pinching, or a reset to IDLE; the
\* state changes by nothing but these assignments, one after the other.
C13_OnlyListedTransitions ==
    /\ [](\A i \in 1..Len(moves) : MoveAllowed(moves[i]))
    /\ [][state' # state =>
            /\ moves' # <<>>
            /\ moves'[1].from = state
            /\ moves'[Len(moves')].to = state'
            /\ \A i \in 1..(Len(moves') - 1) :
                   moves'[i].to = moves'[i + 1].from]_vars

\* a frozen rectangle has been reset
C13_Witness ==
    /\ state = "IDLE"
    /\ \E i \in 1..Len(moves) :
          moves[i].from = "FROZEN" /\ moves[i].via = "reset"

\* C16: outside FROZEN the effect mode is NORMAL, and the effect mode is
\* changed to another mode than NORMAL only by a step that starts and ends in
\* FROZEN.
C16_EffectOnlyWhileFrozen ==
    /\ [](state # "FROZEN" => effectMode = "NORMAL")
    /\ [][(effectMode' # effectMode /\ effectMode' # "NORMAL") =>
            (state = "FROZEN" /\ state' = "FROZEN")]_vars

\* a frozen rectangle with an effect has been reset
C16_Witness ==
    /\ state = "IDLE" /\ effectMode = "NORMAL"
    /\ \E i \in 1..Len(moves) :
          /\ moves[i].from = "FROZEN" /\ moves[i].via = "reset"
          /\ moves[i].effect = "GRID_STRETCH"

\* C17: a step that enters FROZEN starts in RESIZING, the state in which the
\* previous detector callback ended.
C17_FrozenOnlyAfterResizingCallback ==
    [][(state' = "FROZEN" /\ state # "FROZEN") => state = "RESIZING"]_vars

(***************************************************************************)
(* Time-slice camera: effects, reset and the ocean ambience.               *)
(***************************************************************************)

\* the fixed cycle, in the order of the effect switcher
EFFECTS ==
    <<"NORMAL", "GRID_STRETCH", "SLICE_3D", "PIXEL_GRID", "SHREDDER",
      "SANTA_WALKER", "PIXEL_TEXT">>

CycleSuccessor(mode) ==
    LET i == CHOOSE k \in 1..Len(EFFECTS) : EFFECTS[k] = mode
    IN  EFFECTS[(i % Len(EFFECTS)) + 1]

\* C14: a callback that completes the victory dwell replaces the effect mode
\* by its successor in the cycle, and seven switches in a row end in the mode
\* they started from (NORMAL) after entering every mode once.
C14_SwitchFollowsCycle ==
    /\ [][(cbSeq' # cbSeq /\ cb'.switchFired) =>
            effectMode' = CycleSuccessor(effectMode)]_vars
    /\ [](Len(visited) >= Len(EFFECTS) =>
            /\ visited[Len(EFFECTS)] = "NORMAL"
            /\ {visited[i] : i \in 1..Len(EFFECTS)} = EffectModes)

\* the seventh switch in a row has brought the camera back to NORMAL
C14_Witness ==
    /\ cb.switchFired
    /\ Len(visited) = Len(EFFECTS)
    /\ effectMode = "NORMAL" /\ state = "FROZEN"

ResetJustRan == \E i \in 1..Len(moves) : moves[i].via = "reset"

\* C15: a step in which resetSystem ran ends in state IDLE with the zero
\* rectangle, effect NORMAL, both dwell timers null and no pixel-grid
\* particles.
C15_ResetClearsEverything ==
    ResetJustRan =>
        /\ state = "IDLE"
        /\ rect = ZeroRect
        /\ effectMode = "NORMAL"
        /\ resetStartTime = 0
        /\ effectSwitchStartTime = 0
        /\ pgParticles = 0

\* the two-fist dwell has reset a frozen pixel grid with particles
C15_Witness ==
    /\ cb.resetFired
    /\ \E i \in 1..Len(moves) :
          /\ moves[i].via = "reset" /\ moves[i].from = "FROZEN"
          /\ moves[i].effect = "PIXEL_GRID" /\ moves[i].particles > 0
    /\ state = "IDLE"

\* the '1' key has reset a frozen rectangle while the switch dwell ran
C15_KeyWitness ==
    /\ ~cb.resetFired /\ cb.victory
    /\ \E i \in 1..Len(moves) :
          moves[i].via = "reset" /\ moves[i].from = "FROZEN"
    /\ state = "IDLE"

InShredder == state = "FROZEN" /\ effectMode = "SHREDDER"

Called(call, snd) == \E i \in 1..Len(snd.calls) : snd.calls[i] = call

\* C18: startOceanSound is called only by a step that enters FROZEN+SHREDDER
\* and every step that leaves it calls stopOceanSound; while there, one
\* source plays and no stop is pending; elsewhere a source that is still
\* alive is the one a pending stop timer will stop, the timer is due at most
\* 1100 ms after SHREDDER was left, and no source is left once it has fired.
C18_OceanOnlyInShredder ==
    /\ [](InShredder =>
            /\ sound.isOceanPlaying /\ sound.timers = <<>>
            /\ sound.live = {sound.oceanSource})
    /\ [](~InShredder /\ sound.live # {} =>
            /\ sound.timers # <<>>
            /\ Head(sound.timers) <= now + FadeOutMs
            /\ sound.live = {sound.oceanSource})
    /\ [][/\ (sound' # sound /\ Called("start", sound')) =>
                (~InShredder /\ InShredder')
          /\ (InShredder /\ ~InShredder') =>
                /\ Called("stop", sound')
                /\ sound'.timers = <<now' + FadeOutMs>>
          /\ (~InShredder /\ Len(sound'.timers) < Len(sound.timers)) =>
                sound'.live = {}]_vars

\* the shredder has been left and entered again a full cycle later, and its
\* second ocean source plays
C18_Witness ==
    /\ InShredder
    /\ sound.made = 2 /\ sound.live = {2}

\* a reset has left the shredder and the ocean has faded out
C18_FadedOut ==
    /\ state = "IDLE" /\ sound.made = 1
    /\ sound.live = {} /\ sound.timers = <<>> /\ ~sound.isOceanPlaying

(***************************************************************************)
(* Sound engine: the ocean ambience under arbitrary calls.                 *)
(***************************************************************************)

\* C19: whenever no stop timer is pending, the ocean is playing (the flag is
\* set and the current source is alive) exactly if the most recent call was
\* startOceanSound.
C19_PlayingIffLastCallStart ==
    sound.timers = <<>> =>
        ((/\ sound.isOceanPlaying
          /\ sound.oceanSource # 0
          /\ sound.oceanSource \in sound.live)
            <=> sound.lastCall = "start")

(***************************************************************************)
(* Tear filter: the text queue.                                            *)
(***************************************************************************)

TearChars == [i \in 1..Len(bodies) |-> bodies[i].char]

\* C20: the tears created so far carry, in order of creation, the first
\* characters of the typed text, one tear for each character.
C20_OneTearPerCharacter ==
    /\ Len(bodies) <= typed
    /\ TearChars = SubSeq(QueueLetters, 1, Len(bodies))

(***************************************************************************)
(* Tear filter: the life of a tear.                                        *)
(***************************************************************************)

TearMoves == {<<"sliding", "falling">>, <<"sliding", "rewinding">>,
              <<"falling", "rewinding">>}

\* C21: a tear that is in the world before and after a step keeps its state
\* or goes sliding -> falling, sliding -> rewinding or falling -> rewinding.
C21_TearStateMoves ==
    [][\A i \in 1..Len(bodies), j \in 1..Len(bodies') :
         (bodies[i].id = bodies'[j].id
            /\ bodies[i].state # bodies'[j].state)
         => <<bodies[i].state, bodies'[j].state>> \in TearMoves]_vars

\* a tear rewound while it was sliding is on its way back up the face
C21_Witness ==
    /\ tk.ran
    /\ \E i \in 1..Len(bodies) :
          /\ bodies[i].state = "rewinding" /\ bodies[i].sensor
          /\ bodies[i].id \in rewound
          /\ bodies[i].progress > 0 /\ bodies[i].progress < 990
          /\ bodies[i].y = Bezier(faceLandmarksRef, bodies[i].progress)

\* a tear rewound after it had fallen to the ground is flying back
C21_FallenRewinds ==
    \E i \in 1..Len(bodies) :
        /\ bodies[i].state = "rewinding" /\ bodies[i].vy < 0
        /\ bodies[i].id \in rewound

(***************************************************************************)
(* Tear filter: the dwell on a button.                                     *)
(***************************************************************************)

\* C22: a hand that has pointed at the same button in every rendered frame
\* for more than 600 ms has had that button clicked.
C22_HeldButtonIsClicked ==
    \A h \in 1..2 :
        (held[h].btn # "null" /\ pointNow - held[h].since > DWELL_TIME)
            => held[h].clicked

====
